---- MODULE Spec2Model ----
(***************************************************************************)
(* Model of src/app.py: the Iris classification HTTP service.              *)
(*                                                                         *)
(* Measurements are fixed-point numbers in tenths of a centimetre          *)
(* (4.5 cm is 45), so every literal of the source (8.0, 4.5, 7.0, 2.5,     *)
(* 4.0, 2.0, 1.0, 0.1) is an integer here.                                 *)
(*                                                                         *)
(* Every handler of the source is an `async def` without a single await:   *)
(* uvicorn runs them on one event loop, so a handler that has started      *)
(* keeps the loop until its response is produced.  `loop` is the request   *)
(* that holds the event loop (0: the loop is free).                        *)
(***************************************************************************)
EXTENDS Integers, Sequences, FiniteSets, TLC

VARIABLES
    clf,      \* the classifier object loaded at startup (model)
    req,      \* the requests, by connection slot
    loop,     \* the slot whose coroutine runs on the event loop, 0 if none
    sleep,    \* seconds left of the running time.sleep call
    kwargs,   \* the four inputs of a stand-alone IrisFeatures construction
    built     \* the outcome of that construction

vars == <<clf, req, loop, sleep, kwargs, built>>

-----------------------------------------------------------------------------
(* Bounds of the model *)

NReq == 2          \* requests the process receives
MaxBatch == 2      \* records in one batch body
MaxSeconds == 1    \* largest seconds parameter of simulate_workload
Margin == 1        \* how far around 0 and each upper bound inputs are drawn

Slots == 1..NReq

-----------------------------------------------------------------------------
(* Constants of the program *)

CODE_SIGNATURE == "md5(IrisAPI_v1.0.0_Hackathon)"

FieldNames == {"sepal_length", "sepal_width", "petal_length", "petal_width"}

\* le= of each Field, in tenths
FieldLe_Loose ==
    [sepal_length |-> 80, sepal_width |-> 45, petal_length |-> 70, petal_width |-> 30]

FieldLe ==
    [sepal_length |-> 80, sepal_width |-> 45, petal_length |-> 70, petal_width |-> 25]

prediction_map_Renamed == (0 :> "setosa") @@ (1 :> "versicolor") @@ (2 :> "unknown")

prediction_map == (0 :> "setosa") @@ (1 :> "versicolor") @@ (2 :> "virginica")

\* the arguments of the four random.uniform calls of predict_random
RandomRange_Wide ==
    [sepal_length |-> <<40, 80>>, sepal_width |-> <<20, 45>>,
     petal_length |-> <<10, 70>>, petal_width |-> <<1, 26>>]

RandomRange ==
    [sepal_length |-> <<40, 80>>, sepal_width |-> <<20, 45>>,
     petal_length |-> <<10, 70>>, petal_width |-> <<1, 25>>]

-----------------------------------------------------------------------------
(* IrisFeatures: the pydantic model *)

\* Field(..., gt=0, le=...)
FieldConstraint(name, value) == value > 0 /\ value <= FieldLe[name]

\* @validator: raises ValueError when value <= 0
validate_positive_values(value) == ~(value <= 0)

\* IrisFeatures(**kw): the object, or the ValidationError naming the fields
IrisFeatures(kw) ==
    LET errs == {f \in FieldNames :
                    ~(FieldConstraint(f, kw[f]) /\ validate_positive_values(kw[f]))}
    IN  [ok |-> errs = {}, value |-> kw, errors |-> errs]

\* BatchIrisFeatures(features=[...]): every element is validated
BatchIrisFeatures_FirstOnly(body) ==
    LET errs == {<<i, f>> \in (DOMAIN body) \X FieldNames :
                    i = 1 /\ f \in IrisFeatures(body[i]).errors}
    IN  [ok |-> errs = {}, value |-> body, errors |-> errs]

BatchIrisFeatures(body) ==
    LET errs == {<<i, f>> \in (DOMAIN body) \X FieldNames :
                    f \in IrisFeatures(body[i]).errors}
    IN  [ok |-> errs = {}, value |-> body, errors |-> errs]

-----------------------------------------------------------------------------
(* The inference adapter *)

\* [features.sepal_length, features.sepal_width, features.petal_length, features.petal_width]
Row(features) ==
    <<features.sepal_length, features.sepal_width,
      features.petal_length, features.petal_width>>

\* np.array(list of rows): an empty list gives a 1-D array of shape (0,)
NpArray(rows) ==
    IF rows = <<>>
    THEN [shape |-> <<0>>, data |-> <<>>]
    ELSE [shape |-> <<Len(rows), 4>>, data |-> rows]

NoArray == [shape |-> <<>>, data |-> <<>>]

\* The classifier objects the process may have loaded.  Each is a row-wise
\* deterministic function of the four columns; `bad` says what it does on a
\* large-petal row (petal_length >= 5.0): answer class 2, answer the
\* off-contract class 3, or raise.  `empty` says what it does with an input
\* that is not two-dimensional: raise (scikit-learn) or answer no rows.
Classifiers == [bad : {"none", "id3", "raise"}, empty : {"raise", "empty"}]

classify(c, row) ==
    IF row[3] < 25 THEN 0
    ELSE IF row[3] < 50 THEN 1
    ELSE IF c.bad = "id3" THEN 3 ELSE 2

RowRaises(c, row) == c.bad = "raise" /\ row[3] >= 50

\* model.predict(input_data)
ModelPredict(c, m) ==
    IF Len(m.shape) # 2
    THEN [raised |-> c.empty = "raise", ids |-> <<>>]
    ELSE IF \E i \in DOMAIN m.data : RowRaises(c, m.data[i])
         THEN [raised |-> TRUE, ids |-> <<>>]
         ELSE [raised |-> FALSE,
               ids |-> [i \in DOMAIN m.data |-> classify(c, m.data[i])]]

NoOut == [raised |-> FALSE, ids |-> <<>>]

\* prediction_map[int(pred)]: a KeyError for an id that is no key
Lookup_Default(id) ==
    IF id \in DOMAIN prediction_map
    THEN [raised |-> FALSE, label |-> prediction_map[id]]
    ELSE [raised |-> FALSE, label |-> "setosa"]

Lookup(id) ==
    IF id \in DOMAIN prediction_map
    THEN [raised |-> FALSE, label |-> prediction_map[id]]
    ELSE [raised |-> TRUE, label |-> "KeyError"]

\* [prediction_map[int(pred)] for pred in predictions]
BatchLabels_Reversed(ids) ==
    [i \in DOMAIN ids |-> Lookup(ids[Len(ids) + 1 - i]).label]

BatchLabels(ids) == [i \in DOMAIN ids |-> Lookup(ids[i]).label]

-----------------------------------------------------------------------------
(* Responses *)

NoResp == [status |-> 0]

\* raise HTTPException(status_code=500, detail=...)
HTTPException(detail) == [status |-> 500, detail |-> detail]

\* FastAPI's answer to a body that fails validation
RequestValidationError(errors) == [status |-> 422, detail |-> errors]

\* the try body of predict after model.predict
predict_Return(out) ==
    IF out.raised \/ Len(out.ids) = 0 \/ Lookup(out.ids[1]).raised
    THEN HTTPException("Prediction failed")
    ELSE [status |-> 200, prediction |-> Lookup(out.ids[1]).label,
          code_signature |-> CODE_SIGNATURE]

\* the try body of predict_batch after model.predict
predict_batch_Return(out) ==
    IF out.raised \/ \E i \in DOMAIN out.ids : Lookup(out.ids[i]).raised
    THEN HTTPException("Batch prediction failed")
    ELSE [status |-> 200, predictions |-> BatchLabels(out.ids),
          code_signature |-> CODE_SIGNATURE]

\* the try body of predict_random after model.predict
predict_random_Return(random_features, out) ==
    IF out.raised \/ Len(out.ids) = 0 \/ Lookup(out.ids[1]).raised
    THEN HTTPException("Random prediction failed")
    ELSE [status |-> 200, random_features |-> random_features,
          prediction |-> Lookup(out.ids[1]).label,
          code_signature |-> CODE_SIGNATURE]

health_check_Return_Unsigned == [status |-> 200, health |-> "Healthy"]

health_check_Return ==
    [status |-> 200, health |-> "Healthy", code_signature |-> CODE_SIGNATURE]

model_info_Return ==
    [status |-> 200, model |-> "Support Vector Classifier (SVC)", version |-> "1.0",
     code_signature |-> CODE_SIGNATURE]

\* time.sleep raises ValueError for a negative argument
simulate_workload_Return(seconds) ==
    IF seconds < 0
    THEN HTTPException("Workload simulation failed")
    ELSE [status |-> 200, message |-> seconds, code_signature |-> CODE_SIGNATURE]

\* where a handler's try block leaves the request
AfterInference_Retry(resp) ==
    IF resp.status = 200 THEN "responded" ELSE "inferring"

AfterInference(resp) ==
    IF resp.status = 200 THEN "responded" ELSE "inference_failed"

-----------------------------------------------------------------------------
(* Inputs *)

Endpoints == {"predict", "predict_batch", "predict_random",
              "health", "model_info", "simulate_workload"}

PredictionEndpoints == {"predict", "predict_batch", "predict_random"}

Rec(a, b, c, d) ==
    [sepal_length |-> a, sepal_width |-> b, petal_length |-> c, petal_width |-> d]

\* request bodies: the small-petal and the large-petal profile of the iris data
\* set (the second with petal_width at its upper bound), and a record with one
\* field at 0 and one field above its upper bound
Samples == {Rec(49, 30, 14, 2), Rec(63, 33, 60, 25), Rec(0, 30, 14, 26)}

Batches == UNION {[1..n -> Samples] : n \in 0..MaxBatch}

\* what random.uniform(a, b) can return: a value of [a, b]; the two ends are
\* drawn, which are the values nearest to the bounds of IrisFeatures
Uniform(range) == {range[1], range[2]}

\* inputs of a stand-alone construction: around 0 and around the upper bound
Around(name) == (-Margin..Margin) \cup ((FieldLe[name] - Margin)..(FieldLe[name] + Margin))

-----------------------------------------------------------------------------
(* State *)

Idle ==
    [st |-> "idle", ep |-> "none", body |-> <<>>, seconds |-> 0,
     features |-> <<>>, input_data |-> NoArray, calls |-> 0,
     out |-> NoOut, resp |-> NoResp]

Terminal == {"rejected", "responded", "inference_failed", "failed"}

NotBuilt == [ok |-> FALSE, value |-> Rec(0, 0, 0, 0), errors |-> {}]

Init ==
    /\ clf \in Classifiers
    /\ req = [r \in Slots |-> Idle]
    /\ loop = 0
    /\ sleep = 0
    /\ kwargs = Rec(0, 0, 0, 0)
    /\ built = NotBuilt

-----------------------------------------------------------------------------
(* Actions *)

\* a request reaches the server
Receive(r, ep) ==
    /\ req[r].st = "idle"
    /\ \A q \in Slots : q < r => req[q].st # "idle"
    /\ req' = [req EXCEPT ![r].st = "received", ![r].ep = ep]
    /\ UNCHANGED <<clf, loop, sleep, kwargs, built>>

\* FastAPI reads the body of POST /predict or POST /predict_batch
ReadBody(r) ==
    /\ loop = 0
    /\ req[r].st = "received"
    /\ req[r].ep \in {"predict", "predict_batch"}
    /\ \E body \in (IF req[r].ep = "predict" THEN [1..1 -> Samples] ELSE Batches) :
          req' = [req EXCEPT ![r].st = "validating", ![r].body = body]
    /\ loop' = r
    /\ UNCHANGED <<clf, sleep, kwargs, built>>

\* FastAPI builds the handler's argument; a failure is answered 422
ValidateBody(r) ==
    /\ loop = r
    /\ req[r].st = "validating"
    /\ req[r].ep \in {"predict", "predict_batch"}
    /\ LET v == BatchIrisFeatures(req[r].body)
       IN  req' = IF v.ok
                  THEN [req EXCEPT ![r].st = "validated", ![r].features = v.value]
                  ELSE [req EXCEPT ![r].st = "rejected",
                                   ![r].resp = RequestValidationError(v.errors)]
    /\ UNCHANGED <<clf, loop, sleep, kwargs, built>>

\* predict_random draws the four measurements
DrawRandom(r) ==
    /\ loop = 0
    /\ req[r].st = "received"
    /\ req[r].ep = "predict_random"
    /\ \E a \in Uniform(RandomRange.sepal_length), b \in Uniform(RandomRange.sepal_width),
          c \in Uniform(RandomRange.petal_length), d \in Uniform(RandomRange.petal_width) :
          req' = [req EXCEPT ![r].st = "validating", ![r].body = <<Rec(a, b, c, d)>>]
    /\ loop' = r
    /\ UNCHANGED <<clf, sleep, kwargs, built>>

\* predict_random constructs IrisFeatures inside its try block
ConstructRandom(r) ==
    /\ loop = r
    /\ req[r].st = "validating"
    /\ req[r].ep = "predict_random"
    /\ LET v == IrisFeatures(req[r].body[1])
       IN  req' = IF v.ok
                  THEN [req EXCEPT ![r].st = "validated", ![r].features = <<v.value>>]
                  ELSE [req EXCEPT ![r].st = "rejected",
                                   ![r].resp = HTTPException("Random prediction failed")]
    /\ UNCHANGED <<clf, loop, sleep, kwargs, built>>

\* input_data = np.array([...])
PrepareInput(r) ==
    /\ loop = r
    /\ req[r].st = "validated"
    /\ req' = [req EXCEPT ![r].st = "inferring",
                          ![r].input_data =
                              NpArray([i \in DOMAIN req[r].features |->
                                          Row(req[r].features[i])])]
    /\ UNCHANGED <<clf, loop, sleep, kwargs, built>>

\* model.predict(input_data), the mapping of its answer, return or except
Infer(r) ==
    /\ loop = r
    /\ req[r].st = "inferring"
    /\ LET out == ModelPredict(clf, req[r].input_data)
           resp == CASE req[r].ep = "predict" -> predict_Return(out)
                     [] req[r].ep = "predict_batch" -> predict_batch_Return(out)
                     [] OTHER -> predict_random_Return(req[r].features[1], out)
       IN  req' = [req EXCEPT ![r].st = AfterInference(resp),
                              ![r].calls = @ + 1,
                              ![r].out = out,
                              ![r].resp = resp]
    /\ UNCHANGED <<clf, loop, sleep, kwargs, built>>

health_check(r) ==
    /\ loop = 0
    /\ req[r].st = "received"
    /\ req[r].ep = "health"
    /\ req' = [req EXCEPT ![r].st = "responded", ![r].resp = health_check_Return]
    /\ loop' = r
    /\ UNCHANGED <<clf, sleep, kwargs, built>>

model_info(r) ==
    /\ loop = 0
    /\ req[r].st = "received"
    /\ req[r].ep = "model_info"
    /\ req' = [req EXCEPT ![r].st = "responded", ![r].resp = model_info_Return]
    /\ loop' = r
    /\ UNCHANGED <<clf, sleep, kwargs, built>>

\* simulate_workload is called and enters time.sleep(seconds)
simulate_workload(r) ==
    /\ loop = 0
    /\ req[r].st = "received"
    /\ req[r].ep = "simulate_workload"
    /\ \E seconds \in -1..MaxSeconds :
          /\ req' = [req EXCEPT ![r].st = "sleeping", ![r].seconds = seconds]
          /\ sleep' = IF seconds > 0 THEN seconds ELSE 0
    /\ loop' = r
    /\ UNCHANGED <<clf, kwargs, built>>

\* one second of time.sleep passes; the thread of the event loop is in the call
SleepTick(r) ==
    /\ loop = r
    /\ req[r].st = "sleeping"
    /\ sleep > 0
    /\ sleep' = sleep - 1
    /\ UNCHANGED <<clf, req, loop, kwargs, built>>

\* time.sleep is over (or raised): simulate_workload returns
Wake(r) ==
    /\ loop = r
    /\ req[r].st = "sleeping"
    /\ sleep = 0
    /\ LET resp == simulate_workload_Return(req[r].seconds)
       IN  req' = [req EXCEPT ![r].st = IF resp.status = 200 THEN "responded" ELSE "failed",
                              ![r].resp = resp]
    /\ UNCHANGED <<clf, loop, sleep, kwargs, built>>

\* the response is sent; the request's objects are dropped and the loop is free
Send(r) ==
    /\ loop = r
    /\ req[r].st \in Terminal
    /\ req' = [req EXCEPT ![r] = [Idle EXCEPT !.st = req[r].st]]
    /\ loop' = 0
    /\ UNCHANGED <<clf, sleep, kwargs, built>>

\* the coroutine of request r can take a step
Step(r) ==
    \/ ReadBody(r)
    \/ ValidateBody(r)
    \/ DrawRandom(r)
    \/ ConstructRandom(r)
    \/ PrepareInput(r)
    \/ Infer(r)
    \/ health_check(r)
    \/ model_info(r)
    \/ simulate_workload(r)
    \/ SleepTick(r)
    \/ Wake(r)
    \/ Send(r)

Next ==
    \/ \E r \in Slots, ep \in Endpoints : Receive(r, ep)
    \/ \E r \in Slots : Step(r)

Spec == Init /\ [][Next]_vars

-----------------------------------------------------------------------------
(* Stand-alone construction of one IrisFeatures record *)

InitFields ==
    /\ clf \in {[bad |-> "none", empty |-> "raise"]}
    /\ req = [r \in Slots |-> Idle]
    /\ loop = 0
    /\ sleep = 0
    /\ kwargs \in [sepal_length : Around("sepal_length"), sepal_width : Around("sepal_width"),
                   petal_length : Around("petal_length"), petal_width : Around("petal_width")]
    /\ built = NotBuilt

Construct ==
    /\ built = NotBuilt
    /\ built' = IrisFeatures(kwargs)
    /\ UNCHANGED <<clf, req, loop, sleep, kwargs>>

NextFields == Construct

SpecFields == InitFields /\ [][NextFields]_vars

-----------------------------------------------------------------------------
(* Properties *)

\* the bounds table of the specification, in tenths
UpperBound ==
    [sepal_length |-> 80, sepal_width |-> 45, petal_length |-> 70, petal_width |-> 25]

InBounds(raw, f) == raw[f] > 0 /\ raw[f] <= UpperBound[f]

Violates(raw) == \E f \in FieldNames : ~InBounds(raw, f)

Columns(raw) == <<raw.sepal_length, raw.sepal_width, raw.petal_length, raw.petal_width>>

Labels == {"setosa", "versicolor", "virginica"}

Answered == {"responded", "inference_failed"}

\* C1: a construction of IrisFeatures succeeds exactly when every field is
\* above 0 and at most its own upper bound, and a failure names exactly the
\* fields that are out of range, whatever the other fields hold.
C1_ConstructionIffInBounds ==
    built # NotBuilt =>
        /\ built.ok <=> \A f \in FieldNames : InBounds(kwargs, f)
        /\ built.errors = {f \in FieldNames : ~InBounds(kwargs, f)}
        /\ built.ok => built.value = kwargs

\* C1 witness: every field exactly at its upper bound, and the record is built
C1_Witness ==
    /\ kwargs = Rec(80, 45, 70, 25)
    /\ built # NotBuilt
    /\ built.ok

\* C2: a POST /predict or /predict_batch body with a field out of range in any
\* of its records is answered with a client error (4xx); the handler never
\* prepares an input for it and model.predict is not called, so it is never a 500.
C2_RejectedBeforeInference ==
    \A r \in Slots :
        (/\ req[r].ep \in {"predict", "predict_batch"}
         /\ req[r].st # "received"
         /\ \E i \in DOMAIN req[r].body : Violates(req[r].body[i]))
        => /\ req[r].st \in {"validating", "rejected"}
           /\ req[r].calls = 0
           /\ req[r].input_data = NoArray
           /\ req[r].st = "rejected" =>
                 /\ req[r].resp.status \in 400..499
                 /\ \A i \in DOMAIN req[r].body : \A f \in FieldNames :
                       (<<i, f>> \in req[r].resp.detail) <=> ~InBounds(req[r].body[i], f)

\* C2 witness: a batch whose first record is valid and whose second is not, rejected
C2_Witness ==
    \E r \in Slots :
        /\ req[r].ep = "predict_batch"
        /\ req[r].st = "rejected"
        /\ Len(req[r].body) = 2
        /\ ~Violates(req[r].body[1])
        /\ Violates(req[r].body[2])

\* C3: a batch of N validated records that predict_batch answers carries N
\* labels; the label at index i is prediction_map of the class id the
\* classifier gave for record i, and is the label predict returns for that
\* record alone.
C3_BatchOrder ==
    \A r \in Slots :
        (req[r].ep = "predict_batch" /\ req[r].st = "responded") =>
            /\ Len(req[r].resp.predictions) = Len(req[r].body)
            /\ Len(req[r].out.ids) = Len(req[r].body)
            /\ \A i \in DOMAIN req[r].body :
                  LET alone == ModelPredict(clf, NpArray(<<Columns(req[r].body[i])>>))
                  IN  /\ ~alone.raised
                      /\ req[r].out.ids[i] = alone.ids[1]
                      /\ alone.ids[1] \in 0..2
                      /\ req[r].resp.predictions[i] = prediction_map[alone.ids[1]]
                      /\ req[r].resp.predictions[i] = predict_Return(alone).prediction

\* C3 witness: the batch [small-petal, large-petal] answered setosa, virginica
C3_Witness ==
    \E r \in Slots :
        /\ req[r].ep = "predict_batch"
        /\ req[r].st = "responded"
        /\ req[r].body = <<Rec(49, 30, 14, 2), Rec(63, 33, 60, 25)>>
        /\ req[r].resp.predictions = <<"setosa", "virginica">>

\* C4 (as claimed): while simulate_workload sleeps, a request to another
\* endpoint that has been received can be started.
C4_OthersNotDelayed ==
    \A s \in Slots, r \in Slots :
        (/\ req[s].ep = "simulate_workload"
         /\ req[s].st = "sleeping"
         /\ sleep > 0
         /\ req[r].st = "received"
         /\ req[r].ep # "simulate_workload")
        => ENABLED Step(r)

C6_PredictLabel ==
    \A r \in Slots :
        (req[r].ep = "predict" /\ req[r].st \in Answered) =>
            IF ~req[r].out.raised /\ req[r].out.ids[1] \in 0..2
            THEN /\ req[r].st = "responded"
                 /\ req[r].resp.status = 200
                 /\ req[r].resp.prediction \in Labels
            ELSE /\ req[r].st = "inference_failed"
                 /\ "prediction" \notin DOMAIN req[r].resp

\* C6 witness: the large-petal record answered virginica
C6_Witness ==
    \E r \in Slots :
        /\ req[r].ep = "predict"
        /\ req[r].st = "responded"
        /\ req[r].body = <<Rec(63, 33, 60, 25)>>
        /\ req[r].resp.prediction = "virginica"

\* C7: every record predict_random draws is within the IrisFeatures bounds,
\* so its construction never fails.
C7_RandomValid ==
    \A r \in Slots :
        (req[r].ep = "predict_random" /\ req[r].st # "received") =>
            /\ req[r].st # "rejected"
            /\ ~Violates(req[r].body[1])
            /\ req[r].st # "validating" => req[r].features = req[r].body

\* C7 witness: the draw with every field at the top of its range is constructed
C7_Witness ==
    \E r \in Slots :
        /\ req[r].ep = "predict_random"
        /\ req[r].st = "validated"
        /\ req[r].features = <<Rec(80, 45, 70, 25)>>

\* C8: when the classifier answers a class id outside {0, 1, 2} for any row,
\* the request fails with 500 and an explanation, and carries no label: none
\* substituted, and for a batch no partial list.
C8_OffContractId ==
    \A r \in Slots :
        (/\ req[r].ep \in PredictionEndpoints
         /\ req[r].st \in Answered
         /\ ~req[r].out.raised
         /\ \E i \in DOMAIN req[r].out.ids : req[r].out.ids[i] \notin {0, 1, 2})
        => /\ req[r].st = "inference_failed"
           /\ req[r].resp.status = 500
           /\ DOMAIN req[r].resp = {"status", "detail"}

\* C8 witness: a batch whose first row got class 0 and whose second got class 3
C8_Witness ==
    \E r \in Slots :
        /\ req[r].ep = "predict_batch"
        /\ req[r].st = "inference_failed"
        /\ req[r].out.ids = <<0, 3>>

PredictionSteps ==
    {<<"idle", "received">>, <<"received", "validating">>,
     <<"validating", "validated">>, <<"validating", "rejected">>,
     <<"validated", "inferring">>,
     <<"inferring", "responded">>, <<"inferring", "inference_failed">>}

C9_Step(r) ==
    /\ req[r].st \in Terminal => req'[r].st = req[r].st
    /\ (req[r].ep \in PredictionEndpoints \/ req'[r].ep \in PredictionEndpoints) =>
          /\ req'[r].st # req[r].st => <<req[r].st, req'[r].st>> \in PredictionSteps
          /\ req'[r].calls > req[r].calls =>
                /\ req[r].st = "inferring"
                /\ req[r].calls = 0
                /\ req'[r].calls = 1
          /\ req'[r].st = "inference_failed" /\ req[r].st # "inference_failed" =>
                req'[r].calls = 1

C9_State(r) ==
    req[r].ep \in PredictionEndpoints =>
        /\ req[r].st \in {"received", "validating", "validated", "inferring",
                          "rejected", "responded", "inference_failed"}
        /\ req[r].calls = (IF req[r].st \in Answered THEN 1 ELSE 0)
        /\ req[r].st \in {"validating", "validated", "inferring"} =>
              loop = r /\ ENABLED Step(r)

\* C9: a prediction request moves received -> validating -> (validated |
\* rejected), validated -> inferring -> (responded | inference_failed) and in
\* no other way; a terminal state is never left; a request between received
\* and its terminal state can always take its next step; model.predict is
\* called once, in the step that leaves inferring, and never again.
C9_RequestStateMachine ==
    /\ [](\A r \in Slots : C9_State(r))
    /\ [][\A r \in Slots : C9_Step(r)]_vars

\* C9 witness: a prediction request whose single classifier call failed
C9_Witness ==
    \E r \in Slots :
        /\ req[r].ep \in PredictionEndpoints
        /\ req[r].st = "inference_failed"
        /\ req[r].calls = 1
        /\ req[r].out.raised

\* C10 (as claimed): for a batch of any count of validated records, 0
\* included, the classifier is passed a matrix of shape (count, 4) whose row i
\* holds record i in the order sepal_length, sepal_width, petal_length,
\* petal_width, and an answered batch carries count labels.
C10_MatrixShape ==
    \A r \in Slots :
        (req[r].ep = "predict_batch" /\ req[r].st \in {"inferring"} \cup Answered) =>
            /\ req[r].input_data.shape = <<Len(req[r].features), 4>>
            /\ \A i \in DOMAIN req[r].features :
                  req[r].input_data.data[i] = Columns(req[r].features[i])
            /\ req[r].st = "responded" =>
                  Len(req[r].resp.predictions) = Len(req[r].features)

====
